---- MODULE Spec2Model ----
(***************************************************************************)
(* Model of the Glances display/collection plugins of this repository:    *)
(*   - the NVMe sensor plugin (glances_nvme.py): GlancesGrabNVMe.get,     *)
(*     parse_nvme_output, PluginModel.update, PluginModel.msg_curse;      *)
(*   - the network plugin (network/__init__.py): update, update_local,    *)
(*     update_views, msg_curse;                                           *)
(*   - the threshold classification exercised by tests/test_diskio.py.    *)
(* Python exceptions are modelled as values: every operation returns a    *)
(* record whose field err names the exception raised ("none" when the     *)
(* call returned normally).                                               *)
(***************************************************************************)
EXTENDS Integers, Sequences, FiniteSets, TLC

VARIABLES
    tool,             \* what the smartctl subprocess did in the last update()
    nvme_stats,       \* NVMe PluginModel.stats
    nvme_update_err,  \* exception raised by the last NVMe update()
    nvme_width,       \* max_width of the last NVMe msg_curse()
    nvme_ret,         \* cells returned by the last NVMe msg_curse()
    nvme_curse_err,   \* exception raised by the last NVMe msg_curse()
    nvme_last,        \* the last NVMe operation: "init", "update", "msg_curse"
    nvme_disabled,    \* GlancesPluginModel.is_disabled() of the NVMe plugin
    limits,           \* the thresholds of the configuration file, by stat name
    net_stats,        \* network PluginModel.stats: a list of dicts
    stats_previous,   \* the samples the rate computation keeps as its baseline
    net_views,        \* network PluginModel.views, by interface name
    alerted,          \* the interfaces update_views computed an alert for
    reported,         \* the interfaces the provider listed in the last read
    net_err,          \* exception raised by the last network update()
    hide_no_up,       \* network PluginModel.hide_no_up, read by the constructor
    hide_no_ip,       \* network PluginModel.hide_no_ip, read by the constructor
    net_addrs,        \* the interfaces psutil.net_if_addrs() gave an IP address for
    lab_name,         \* label formatting: the interface name
    lab_alias,        \* label formatting: its alias (NoAlias when it has none)
    lab_width,        \* label formatting: max_width
    lab_cell,         \* label formatting: the name cell, once formatted
    dk_bounds,        \* disk I/O: the ThresholdSet of the rates
    dk_stat,          \* disk I/O: the read and write rates of one disk
    dk_deco           \* disk I/O: their decorations, once classified

nvme_vars == <<tool, nvme_stats, nvme_update_err, nvme_width, nvme_ret,
               nvme_curse_err, nvme_last, nvme_disabled>>

net_vars == <<limits, net_stats, stats_previous, net_views, alerted, reported, net_err,
              hide_no_up, hide_no_ip, net_addrs>>
lab_vars == <<lab_name, lab_alias, lab_width, lab_cell>>
dk_vars == <<dk_bounds, dk_stat, dk_deco>>

NoError == "none"

\* Python's None where a string is expected (an absent alias, an absent MAC).
None == "None"

\* max_width=None, encoded among the integer widths.
NoWidth == 0 - 1

(***************************************************************************)
(* The external tool.  An outcome is one of                                *)
(*   [kind |-> "not_installed"]          the executable does not exist,   *)
(*   [kind |-> "exit", code |-> c]       a non-zero exit code,            *)
(*   [kind |-> "output", lines |-> ls]   exit code 0 and the text printed, *)
(* where a line is the sequence of its whitespace-separated tokens, that  *)
(* is line.split().                                                       *)
(***************************************************************************)
TemperatureLine(tok) == <<"Temperature:", tok, "Celsius">>
PowerCyclesLine(tok) == <<"Power", "Cycles:", tok>>
PercentageUsedLine(tok) == <<"Percentage", "Used:", tok>>
OtherLine == <<"Model", "Number:", "WDC">>

NvmeOutputs ==
    { <<>>,
      <<OtherLine>>,
      <<OtherLine, TemperatureLine("35")>>,
      <<TemperatureLine("47"), PowerCyclesLine("12"), PercentageUsedLine("3%")>>,
      <<TemperatureLine("N/A")>>,
      <<<<"Temperature:">>>>,
      <<<<"Temperature:", "hot">>>>,
      <<PowerCyclesLine("12")>>,
      <<PercentageUsedLine("3%"), OtherLine>>,
      <<TemperatureLine("35"), PowerCyclesLine("1,234")>> }

ToolOutcomes ==
    { [kind |-> "not_installed"] }
    \cup { [kind |-> "exit", code |-> c] : c \in {1, 2} }
    \cup { [kind |-> "output", lines |-> ls] : ls \in NvmeOutputs }

(***************************************************************************)
(* int(token): the decimal tokens of the outputs above parse, every other *)
(* token raises ValueError.                                                *)
(***************************************************************************)
IntTable == [t \in {"0", "3", "12", "35", "47"} |->
               CASE t = "0" -> 0 [] t = "3" -> 3 [] t = "12" -> 12
                 [] t = "35" -> 35 [] t = "47" -> 47]

int(tok) ==
    IF tok \in DOMAIN IntTable
    THEN [err |-> NoError, val |-> IntTable[tok]]
    ELSE [err |-> "ValueError", val |-> 0]

\* token.replace('%', '')
StripPercent(tok) == IF tok = "3%" THEN "3" ELSE tok

\* 'Temperature:' in line, 'Power Cycles:' in line, 'Percentage Used:' in line
HasTemperature(line) == \E k \in 1..Len(line) : line[k] = "Temperature:"
HasPowerCycles(line) ==
    \E k \in 1..(Len(line) - 1) : line[k] = "Power" /\ line[k + 1] = "Cycles:"
HasPercentageUsed(line) ==
    \E k \in 1..(Len(line) - 1) : line[k] = "Percentage" /\ line[k + 1] = "Used:"

\* dict assignment d[k] = v
DictSet(d, k, v) == [x \in DOMAIN d \cup {k} |-> IF x = k THEN v ELSE d[x]]
EmptyDict == [x \in {} |-> 0]

(***************************************************************************)
(* parse_nvme_output: one step of the loop over the lines.                 *)
(***************************************************************************)
ParseLine(data, line) ==
    IF HasTemperature(line)
    THEN IF Len(line) < 2
         THEN [err |-> "IndexError", data |-> data]
         ELSE LET r == int(line[Len(line) - 1])
              IN IF r.err # NoError
                 THEN [err |-> r.err, data |-> data]
                 ELSE [err |-> NoError, data |-> DictSet(data, "temperature", r.val)]
    ELSE IF HasPowerCycles(line)
    THEN LET r == int(line[Len(line)])
         IN IF r.err # NoError
            THEN [err |-> r.err, data |-> data]
            ELSE [err |-> NoError, data |-> DictSet(data, "power_cycles", r.val)]
    ELSE IF HasPercentageUsed(line)
    THEN LET r == int(StripPercent(line[Len(line)]))
         IN IF r.err # NoError
            THEN [err |-> r.err, data |-> data]
            ELSE [err |-> NoError, data |-> DictSet(data, "percentage_used", r.val)]
    ELSE [err |-> NoError, data |-> data]

RECURSIVE ParseFrom(_, _, _)
ParseFrom(lines, k, data) ==
    IF k > Len(lines)
    THEN [err |-> NoError, data |-> data]
    ELSE LET r == ParseLine(data, lines[k])
         IN IF r.err # NoError THEN r ELSE ParseFrom(lines, k + 1, r.data)

parse_nvme_output(output) == ParseFrom(output, 1, EmptyDict)

(***************************************************************************)
(* GlancesGrabNVMe.get: only subprocess.CalledProcessError is caught.      *)
(***************************************************************************)
CaughtNothing == {}

CaughtByGet == {"CalledProcessError"}

\* subprocess.check_output(...): the text printed, or the exception raised
check_output(outcome) ==
    CASE outcome.kind = "not_installed" -> [err |-> "FileNotFoundError", out |-> <<>>]
      [] outcome.kind = "exit" -> [err |-> "CalledProcessError", out |-> <<>>]
      [] outcome.kind = "output" -> [err |-> NoError, out |-> outcome.lines]

get(outcome) ==
    LET c == check_output(outcome)
        p == IF c.err = NoError
             THEN parse_nvme_output(c.out)
             ELSE [err |-> c.err, data |-> EmptyDict]
    IN IF p.err = NoError
       THEN [err |-> NoError, data |-> p.data]
       ELSE IF p.err \in CaughtByGet
       THEN [err |-> NoError, data |-> EmptyDict]
       ELSE [err |-> p.err, data |-> EmptyDict]

(***************************************************************************)
(* NVMe PluginModel.update: the new value of self.stats and the exception. *)
(* When an exception leaves update(), self.stats was not assigned.         *)
(***************************************************************************)
nvme_update(old_stats, outcome) ==
    LET g == get(outcome)
    IN IF g.err # NoError
       THEN [err |-> g.err, stats |-> old_stats]
       ELSE IF g.data = EmptyDict
       THEN [err |-> NoError, stats |-> <<>>]
       ELSE IF "temperature" \notin DOMAIN g.data
       THEN [err |-> "KeyError", stats |-> old_stats]
       ELSE [err |-> NoError,
             stats |-> <<[label |-> "NVMe Temp",
                          value |-> g.data["temperature"],
                          unit |-> "C"]>>]

(***************************************************************************)
(* Cells of the curses interface.                                          *)
(***************************************************************************)
curse_new_line == [kind |-> "new_line"]
curse_add_line(kind, msg, decoration) ==
    [kind |-> kind, msg |-> msg, decoration |-> decoration]

RECURSIVE NvmeRows(_, _, _)
NvmeRows(stats, k, width) ==
    IF k > Len(stats)
    THEN <<>>
    ELSE <<curse_new_line,
           curse_add_line("label", [text |-> stats[k].label, width |-> width], "DEFAULT"),
           curse_add_line("value", [value |-> stats[k].value, unit |-> stats[k].unit], "DEFAULT")>>
         \o NvmeRows(stats, k + 1, width)

\* Python truthiness of max_width: None and 0 are false.
Truthy(max_width) == max_width # NoWidth /\ max_width # 0

NvmeValueColumns == 14

(***************************************************************************)
(* NVMe PluginModel.msg_curse.  label_max_width is bound only when         *)
(* max_width is truthy; its use in the loop raises UnboundLocalError       *)
(* otherwise.                                                              *)
(***************************************************************************)
nvme_msg_curse(stats, disabled, max_width) ==
    IF stats = <<>> \/ disabled
    THEN [err |-> NoError, ret |-> <<>>]
    ELSE IF ~Truthy(max_width)
    THEN [err |-> "UnboundLocalError", ret |-> <<>>]
    ELSE [err |-> NoError,
          ret |-> <<curse_add_line("title", "NVMe Stats", "TITLE")>>
                  \o NvmeRows(stats, 1, max_width - NvmeValueColumns)]

(***************************************************************************)
(* Width budgets handed to msg_curse by the display loop.                  *)
(***************************************************************************)
MaxWidth == 16
Widths == {NoWidth} \cup 0..MaxWidth

(***************************************************************************)
(* The NVMe plugin as a state machine.                                     *)
(***************************************************************************)
NvmeInit ==
    /\ limits = [k \in {} |-> 0]
    /\ net_stats = <<>>
    /\ stats_previous = <<>>
    /\ net_views = [name \in {} |-> 0]
    /\ alerted = {}
    /\ reported = {}
    /\ net_err = NoError
    /\ hide_no_up = FALSE /\ hide_no_ip = FALSE /\ net_addrs = {}
    /\ lab_name = <<>> /\ lab_alias = <<>> /\ lab_width = NoWidth /\ lab_cell = <<>>
    /\ dk_bounds = <<>> /\ dk_stat = <<>> /\ dk_deco = <<>>
    /\ tool = [kind |-> "none"]
    /\ nvme_stats = <<>>
    /\ nvme_update_err = NoError
    /\ nvme_width = NoWidth
    /\ nvme_ret = <<>>
    /\ nvme_curse_err = NoError
    /\ nvme_last = "init"
    /\ nvme_disabled \in BOOLEAN

NvmeUpdate ==
    \E outcome \in ToolOutcomes :
        LET r == nvme_update(nvme_stats, outcome)
        IN /\ tool' = outcome
           /\ nvme_stats' = r.stats
           /\ nvme_update_err' = r.err
           /\ nvme_last' = "update"
           /\ UNCHANGED <<nvme_width, nvme_ret, nvme_curse_err, nvme_disabled, net_vars,
                        lab_vars, dk_vars>>

NvmeMsgCurse ==
    \E w \in {NoWidth, 0, 5, NvmeValueColumns, MaxWidth} :
        LET r == nvme_msg_curse(nvme_stats, nvme_disabled, w)
        IN /\ nvme_width' = w
           /\ nvme_ret' = r.ret
           /\ nvme_curse_err' = r.err
           /\ nvme_last' = "msg_curse"
           /\ UNCHANGED <<tool, nvme_stats, nvme_update_err, nvme_disabled, net_vars,
                        lab_vars, dk_vars>>

NvmeNext == NvmeUpdate \/ NvmeMsgCurse

(***************************************************************************)
(* The tick of the display loop, with the subprocess call as a step of     *)
(* its own.  update() calls get(), which calls subprocess.check_output     *)
(* without a timeout argument: the call returns when the tool exits, and   *)
(* a tool that never exits never lets it return.  The loop is one thread:  *)
(* nothing else of the plugin runs while update() waits.                   *)
(*   nvme_last = "check_output"   update() is inside the subprocess call   *)
(*   tool                         the outcome the running tool will have   *)
(***************************************************************************)
NeverExits == [kind |-> "never_exits"]

InCheckOutput == nvme_last = "check_output"

\* update() -> get() -> subprocess.check_output(...): the tool is started
NvmeCallTool ==
    /\ ~InCheckOutput
    /\ tool' \in ToolOutcomes \cup {NeverExits}
    /\ nvme_last' = "check_output"
    /\ UNCHANGED <<nvme_stats, nvme_update_err, nvme_width, nvme_ret, nvme_curse_err,
                   nvme_disabled, net_vars, lab_vars, dk_vars>>

\* the tool exits: check_output returns or raises, and update() finishes
NvmeToolExits ==
    /\ InCheckOutput
    /\ tool # NeverExits
    /\ LET r == nvme_update(nvme_stats, tool)
       IN /\ nvme_stats' = r.stats
          /\ nvme_update_err' = r.err
    /\ nvme_last' = "update"
    /\ UNCHANGED <<tool, nvme_width, nvme_ret, nvme_curse_err, nvme_disabled, net_vars,
                   lab_vars, dk_vars>>

\* the display step of the loop, between two updates
NvmeTickMsgCurse ==
    /\ ~InCheckOutput
    /\ NvmeMsgCurse

NvmeTickNext == NvmeCallTool \/ NvmeToolExits \/ NvmeTickMsgCurse

(***************************************************************************)
(* The network plugin.                                                     *)
(*                                                                         *)
(* Strings that the code cuts, splits or measures (interface names,        *)
(* aliases, stat names) are sequences of characters.  An absent alias      *)
(* (has_alias() returning None) is the empty sequence.                     *)
(***************************************************************************)

Lo == <<"l", "o">>
Eth == <<"e", "t", "h", "0", ":", "1">>
Ifaces == {Lo, Eth}

\* psutil.net_io_counters(pernic=True).items() iterates in this order.
ProviderOrder == <<Lo, Eth>>
\* sorted_stats(): the interfaces by name.
SortedNames == <<Eth, Lo>>

NoAlias == <<>>

\* get_mac_address(interface=...): the loopback has none.
get_mac_address(name) == IF name = Lo THEN None ELSE "0a:1b:2c:3d:4e:5f"

\* The link speed psutil.net_if_stats() reports, in Mbps; 0 when unknown.
LinkSpeedMbps(name) == IF name = Lo THEN 0 ELSE 1

MaxCounter == 2
CounterValues == { k * 65536 : k \in 0..MaxCounter }

MaxElapsed == 1
ElapsedValues == 0..MaxElapsed

\* fields_description: the fields with 'rate': True
RateFields == {"bytes_recv", "bytes_sent", "bytes_all"}
RateKey(f) ==
    CASE f = "bytes_recv" -> "bytes_recv_rate_per_sec"
      [] f = "bytes_sent" -> "bytes_sent_rate_per_sec"
      [] f = "bytes_all" -> "bytes_all_rate_per_sec"

(***************************************************************************)
(* What the operating system reports about one interface in one read: it   *)
(* is absent, or listed by net_io_counters only, or listed by both         *)
(* net_io_counters and net_if_stats.  The loopback is idle and always up.  *)
(***************************************************************************)
Absent == [in_io |-> FALSE, in_status |-> FALSE, bytes_recv |-> 0, bytes_sent |-> 0,
           is_up |-> FALSE]
IoOnly == [in_io |-> TRUE, in_status |-> FALSE, bytes_recv |-> 0, bytes_sent |-> 0,
           is_up |-> FALSE]
Reports(name) ==
    IF name = Lo
    THEN {Absent,
          [in_io |-> TRUE, in_status |-> TRUE, bytes_recv |-> 0, bytes_sent |-> 0,
           is_up |-> TRUE]}
    ELSE {Absent, IoOnly}
         \cup [in_io : {TRUE}, in_status : {TRUE}, bytes_recv : CounterValues,
               bytes_sent : CounterValues, is_up : BOOLEAN]

Snapshots == [Ifaces -> UNION { Reports(n) : n \in Ifaces }]

\* psutil.net_io_counters(pernic=True) and psutil.net_if_stats() of a snapshot
NetIoCounters(snap) ==
    [ n \in { m \in Ifaces : snap[m].in_io } |->
        [bytes_recv |-> snap[n].bytes_recv, bytes_sent |-> snap[n].bytes_sent] ]
NetIfStats(snap) ==
    [ n \in { m \in Ifaces : snap[m].in_status } |->
        [is_up |-> snap[n].is_up, speed |-> LinkSpeedMbps(n)] ]

\* is_display(interface_name), has_alias(interface_name): nothing is hidden
\* and nothing is renamed by the configuration.
is_display(name) == TRUE
has_alias(name) == NoAlias

get_key == "interface_name"

SpeedFactor == 1048576

(***************************************************************************)
(* update_local, the body of the loop for one interface: the stat dict.    *)
(***************************************************************************)
InterfaceStat(name, io, st) ==
    [ bytes_recv |-> io.bytes_recv,
      bytes_sent |-> io.bytes_sent,
      is_up |-> st.is_up,
      key |-> get_key,
      interface_name |-> name,
      mac_address |-> IF get_mac_address(name) # None
                      THEN get_mac_address(name) ELSE "Unknown",
      alias |-> has_alias(name),
      bytes_all |-> io.bytes_sent + io.bytes_recv,
      speed |-> st.speed * SpeedFactor ]

\* The interfaces update_local keeps from one read of the provider.
Kept(name, net_io_counters, net_status) ==
    /\ name \in DOMAIN net_io_counters
    /\ is_display(name)
    /\ name \in DOMAIN net_status

RECURSIVE LocalStats(_, _, _)
LocalStats(k, net_io_counters, net_status) ==
    IF k > Len(ProviderOrder)
    THEN <<>>
    ELSE LET name == ProviderOrder[k]
         IN (IF Kept(name, net_io_counters, net_status)
             THEN <<InterfaceStat(name, net_io_counters[name], net_status[name])>>
             ELSE <<>>)
            \o LocalStats(k + 1, net_io_counters, net_status)

(***************************************************************************)
(* update_local: an OSError of the provider is caught and the previous     *)
(* self.stats is returned.                                                 *)
(***************************************************************************)
update_local(self_stats, os_error, net_io_counters, net_status) ==
    IF os_error
    THEN [err |-> NoError, stats |-> self_stats]
    ELSE [err |-> NoError, stats |-> LocalStats(1, net_io_counters, net_status)]

(***************************************************************************)
(* The rate computation wrapped around update_local (_manage_rate).  A     *)
(* rate is the pair of the counter's increase and the elapsed time.  It is *)
(* unavailable when there is no previous sample of the same interface,     *)
(* when no time elapsed, or when the counter decreased.                    *)
(***************************************************************************)
Olds(previous, name) ==
    { k \in 1..Len(previous) : previous[k].interface_name = name }

RateAvailableAnyDelta(prev, curr, elapsed) == elapsed > 0

RateAvailable(prev, curr, elapsed) == elapsed > 0 /\ curr >= prev

compute_rate(stat, old, elapsed) ==
    LET avail == { f \in RateFields : RateAvailable(old[f], stat[f], elapsed) }
        rates == [ k \in { RateKey(f) : f \in avail } |->
                     LET f == CHOOSE g \in avail : RateKey(g) = k
                     IN [num |-> stat[f] - old[f], den |-> elapsed] ]
    IN [ k \in DOMAIN stat \cup DOMAIN rates |->
           IF k \in DOMAIN rates THEN rates[k] ELSE stat[k] ]

manage_rate(new_stats, previous, elapsed) ==
    [ k \in 1..Len(new_stats) |->
        LET olds == Olds(previous, new_stats[k].interface_name)
        IN IF Cardinality(olds) = 1
           THEN compute_rate(new_stats[k], previous[CHOOSE j \in olds : TRUE], elapsed)
           ELSE new_stats[k] ]

(***************************************************************************)
(* update(): update_local under the rate wrapper; input_method is 'local'. *)
(***************************************************************************)
update(self_stats, previous, os_error, net_io_counters, net_status, elapsed) ==
    LET r == update_local(self_stats, os_error, net_io_counters, net_status)
    IN IF r.err # NoError
       THEN [err |-> r.err, stats |-> self_stats, previous |-> previous]
       ELSE LET rated == manage_rate(r.stats, previous, elapsed)
            IN [err |-> NoError, stats |-> rated, previous |-> rated]

(***************************************************************************)
(* Thresholds.  A ThresholdSet is [careful, warning, critical]; the        *)
(* configuration maps a stat name (header) to one.                         *)
(***************************************************************************)
classify_exclusive(value, t) ==
    IF value > t.critical THEN "CRITICAL"
    ELSE IF value > t.warning THEN "WARNING"
    ELSE IF value > t.careful THEN "CAREFUL"
    ELSE "DEFAULT"

classify(value, t) ==
    IF value >= t.critical THEN "CRITICAL"
    ELSE IF value >= t.warning THEN "WARNING"
    ELSE IF value >= t.careful THEN "CAREFUL"
    ELSE "DEFAULT"

\* get_alert(current, maximum=100, header): the value is current as a
\* percentage of maximum; without limits for the header it is DEFAULT.
get_alert(conf, current, maximum, header) ==
    IF header \notin DOMAIN conf
    THEN "DEFAULT"
    ELSE classify((current * 100) \div maximum, conf[header])

DefaultMaximum == 100

\* str.split(':')[0]
RECURSIVE SplitColon(_)
SplitColon(name) ==
    IF name = <<>> \/ Head(name) = ":"
    THEN <<>>
    ELSE <<Head(name)>> \o SplitColon(Tail(name))

\* int(rate * factor) for a rate num/den
IntTimes(rate, factor) == (rate.num * factor) \div rate.den

(***************************************************************************)
(* update_views.  The parent's update_views rebuilds the views with the    *)
(* DEFAULT decoration; the alerts are then computed for the interfaces     *)
(* that carry both rates.                                                  *)
(***************************************************************************)
HasRates(i) ==
    "bytes_recv_rate_per_sec" \in DOMAIN i /\ "bytes_sent_rate_per_sec" \in DOMAIN i

Alert(conf, i, field, suffix) ==
    LET bps == IntTimes(i[RateKey(field)], 8)
        if_real_name == SplitColon(i.interface_name)
        alert == get_alert(conf, bps, DefaultMaximum, if_real_name \o <<"_">> \o suffix)
    IN IF alert = "DEFAULT" /\ "speed" \in DOMAIN i /\ i.speed # 0
       THEN get_alert(conf, bps, i.speed, suffix)
       ELSE alert

Entry(self_stats, name) ==
    self_stats[CHOOSE k \in 1..Len(self_stats) : self_stats[k].interface_name = name]

Names(self_stats) == { self_stats[k].interface_name : k \in 1..Len(self_stats) }

update_views(conf, self_stats) ==
    [ name \in Names(self_stats) |->
        LET i == Entry(self_stats, name)
        IN IF HasRates(i)
           THEN [ bytes_recv |-> [decoration |-> Alert(conf, i, "bytes_recv", <<"r", "x">>)],
                  bytes_sent |-> [decoration |-> Alert(conf, i, "bytes_sent", <<"t", "x">>)],
                  hidden |-> FALSE ]
           ELSE [ bytes_recv |-> [decoration |-> "DEFAULT"],
                  bytes_sent |-> [decoration |-> "DEFAULT"],
                  hidden |-> FALSE ] ]

Alerted(self_stats) == { name \in Names(self_stats) : HasRates(Entry(self_stats, name)) }

(***************************************************************************)
(* msg_curse of the network plugin.                                        *)
(***************************************************************************)
\* s[k:] of Python, for any integer k
PySliceFrom(s, k) ==
    IF k >= 0
    THEN SubSeq(s, k + 1, Len(s))
    ELSE IF 0 - k >= Len(s) THEN s ELSE SubSeq(s, Len(s) + k + 1, Len(s))

RECURSIVE Spaces(_)
Spaces(n) == IF n <= 0 THEN <<>> ELSE <<" ">> \o Spaces(n - 1)

\* '{:{width}}'.format(text, width=width): left-aligned, padded, never cut;
\* a negative width is the format specifier '-n', which str rejects.
FormatLeft(text, width) ==
    IF width < 0
    THEN [err |-> "ValueError", text |-> <<>>]
    ELSE [err |-> NoError, text |-> text \o Spaces(width - Len(text))]

NetValueColumns == 12

\* The interface name shown: the alias if any, else the name before ':'.
DisplayName(i) ==
    IF i.alias = NoAlias THEN SplitColon(i.interface_name) ELSE i.alias

\* Cut interface name if it is too long
CutName(if_name, name_max_width) ==
    IF Len(if_name) > name_max_width
    THEN <<"_">> \o PySliceFrom(if_name, 0 - name_max_width + 1)
    ELSE if_name

NameLabel(if_name, name_max_width) ==
    FormatLeft(CutName(if_name, name_max_width), name_max_width)

Args == [network_cumul : BOOLEAN, network_sum : BOOLEAN, byte : BOOLEAN]

HeaderCells(args, title) ==
    <<curse_add_line("title", title, "TITLE")>>
    \o (IF args.network_sum
        THEN <<curse_add_line("header", IF args.network_cumul THEN "Rx+Tx" ELSE "Rx+Tx/s",
                              "DEFAULT")>>
        ELSE <<curse_add_line("header", IF args.network_cumul THEN "Rx" ELSE "Rx/s", "DEFAULT"),
               curse_add_line("header", IF args.network_cumul THEN "Tx" ELSE "Tx/s", "DEFAULT")>>)

\* RowValues with every missing rate read as 0.
RowValuesRateOrZero(i, args) ==
    LET to_bit == IF args.byte THEN 1 ELSE 8
        rate(k) == IF k \in DOMAIN i THEN IntTimes(i[k], to_bit) ELSE 0
    IN IF args.network_cumul /\ "bytes_recv" \in DOMAIN i
       THEN [err |-> NoError, show |-> TRUE, source |-> "cumul",
             rx |-> i.bytes_recv * to_bit,
             tx |-> i.bytes_sent * to_bit,
             ax |-> i.bytes_all * to_bit]
       ELSE [err |-> NoError, show |-> TRUE, source |-> "rate",
             rx |-> rate("bytes_recv_rate_per_sec"),
             tx |-> rate("bytes_sent_rate_per_sec"),
             ax |-> rate("bytes_all_rate_per_sec")]

\* The values of one row: cumulative counters, rates, or nothing to show.
RowValues(i, args) ==
    LET to_bit == IF args.byte THEN 1 ELSE 8
    IN IF args.network_cumul /\ "bytes_recv" \in DOMAIN i
       THEN [err |-> NoError, show |-> TRUE, source |-> "cumul",
             rx |-> i.bytes_recv * to_bit,
             tx |-> i.bytes_sent * to_bit,
             ax |-> i.bytes_all * to_bit]
       ELSE IF "bytes_recv_rate_per_sec" \in DOMAIN i
       THEN IF {"bytes_sent_rate_per_sec", "bytes_all_rate_per_sec"} \subseteq DOMAIN i
            THEN [err |-> NoError, show |-> TRUE, source |-> "rate",
                  rx |-> IntTimes(i.bytes_recv_rate_per_sec, to_bit),
                  tx |-> IntTimes(i.bytes_sent_rate_per_sec, to_bit),
                  ax |-> IntTimes(i.bytes_all_rate_per_sec, to_bit)]
            ELSE [err |-> "KeyError", show |-> FALSE, source |-> "rate",
                  rx |-> 0, tx |-> 0, ax |-> 0]
       ELSE [err |-> NoError, show |-> FALSE, source |-> "none", rx |-> 0, tx |-> 0, ax |-> 0]

ValueCell(kind, source, value, decoration) ==
    curse_add_line(kind, [source |-> source, value |-> value], decoration)

\* One pass of the interface loop: the cells it appends to ret.
RowCells(i, self_views, args, name_max_width) ==
    IF "is_up" \in DOMAIN i /\ ~i.is_up
    THEN [err |-> NoError, cells |-> <<>>]
    ELSE IF self_views[i.interface_name].hidden
    THEN [err |-> NoError, cells |-> <<>>]
    ELSE LET label == NameLabel(DisplayName(i), name_max_width)
             v == RowValues(i, args)
             head == <<curse_new_line,
                       curse_add_line("name", label.text, "DEFAULT"),
                       curse_add_line("mac", i.mac_address, "DEFAULT")>>
         IN IF label.err # NoError THEN [err |-> label.err, cells |-> <<>>]
            ELSE IF v.err # NoError THEN [err |-> v.err, cells |-> head]
            ELSE IF ~v.show THEN [err |-> NoError, cells |-> head]
            ELSE IF args.network_sum
            THEN [err |-> NoError,
                  cells |-> head \o <<ValueCell("ax", v.source, v.ax, "DEFAULT")>>]
            ELSE [err |-> NoError,
                  cells |-> head \o
                    <<ValueCell("rx", v.source, v.rx,
                                self_views[i.interface_name].bytes_recv.decoration),
                      ValueCell("tx", v.source, v.tx,
                                self_views[i.interface_name].bytes_sent.decoration)>>]

sorted_stats(self_stats) ==
    LET present == SelectSeq(SortedNames, LAMBDA n : n \in Names(self_stats))
    IN [ k \in 1..Len(present) |-> Entry(self_stats, present[k]) ]

RECURSIVE Rows(_, _, _, _, _)
Rows(sorted, k, self_views, args, name_max_width) ==
    IF k > Len(sorted)
    THEN [err |-> NoError, cells |-> <<>>]
    ELSE LET r == RowCells(sorted[k], self_views, args, name_max_width)
         IN IF r.err # NoError
            THEN r
            ELSE LET rest == Rows(sorted, k + 1, self_views, args, name_max_width)
                 IN [err |-> rest.err, cells |-> r.cells \o rest.cells]

\* msg_curse(args, max_width): the cells returned, or the exception raised.
msg_curse(self_stats, self_views, disabled, args, max_width) ==
    IF self_stats = <<>> \/ disabled
    THEN [err |-> NoError, ret |-> <<>>]
    ELSE IF ~Truthy(max_width)
    THEN [err |-> NoError, ret |-> <<>>]
    ELSE LET name_max_width == max_width - NetValueColumns
             title == FormatLeft(<<"N", "E", "T", "W", "O", "R", "K">>, name_max_width)
             rows == Rows(sorted_stats(self_stats), 1, self_views, args, name_max_width)
         IN IF title.err # NoError THEN [err |-> title.err, ret |-> <<>>]
            ELSE IF rows.err # NoError THEN [err |-> rows.err, ret |-> <<>>]
            ELSE [err |-> NoError, ret |-> HeaderCells(args, title.text) \o rows.cells]

(***************************************************************************)
(* The configuration file: the percentage limits of the plugin (rx, tx)    *)
(* and limits in bit/s for the received bitrate of eth0 (eth0_rx).  The    *)
(* sent bitrate of eth0 and both bitrates of lo have no limits of their    *)
(* own.                                                                    *)
(***************************************************************************)
PercentLimits == [careful |-> 50, warning |-> 70, critical |-> 90]
ExplicitLimits == [careful |-> 600000, warning |-> 800000, critical |-> 1000000]

PluginKeys == {<<"r", "x">>, <<"t", "x">>}
ExplicitKeys == {<<"e", "t", "h", "0", "_", "r", "x">>}

Config ==
    [k \in PluginKeys \cup ExplicitKeys |->
        IF k \in ExplicitKeys THEN ExplicitLimits ELSE PercentLimits]

(***************************************************************************)
(* The network plugin as a state machine.  The constructor runs a first    *)
(* update(); every tick of the display loop then runs update() and         *)
(* update_views().  msg_curse reads the state and changes nothing.         *)
(***************************************************************************)
\* The interfaces a read lists in both net_io_counters and net_if_stats.
Listed(snap) == DOMAIN NetIoCounters(snap) \cap DOMAIN NetIfStats(snap)

ValidSnapshots == { snap \in Snapshots : \A n \in Ifaces : snap[n] \in Reports(n) }

NetInit ==
    /\ limits = Config
    /\ tool = [kind |-> "none"]
    /\ nvme_stats = <<>>
    /\ nvme_update_err = NoError
    /\ nvme_width = NoWidth
    /\ nvme_ret = <<>>
    /\ nvme_curse_err = NoError
    /\ nvme_last = "init"
    /\ nvme_disabled = FALSE
    /\ lab_name = <<>> /\ lab_alias = <<>> /\ lab_width = NoWidth /\ lab_cell = <<>>
    /\ dk_bounds = <<>> /\ dk_stat = <<>> /\ dk_deco = <<>>
    /\ \E snap \in ValidSnapshots, os_error \in BOOLEAN :
         LET r == update(<<>>, <<>>, os_error, NetIoCounters(snap), NetIfStats(snap), 0)
         IN /\ net_stats = r.stats
            /\ stats_previous = r.previous
            /\ net_err = r.err
            /\ reported = IF os_error THEN {} ELSE Listed(snap)
            /\ net_addrs = IF os_error THEN {} ELSE Listed(snap)
    /\ net_views = [name \in {} |-> 0]
    /\ alerted = {}
    /\ hide_no_up = FALSE
    /\ hide_no_ip = FALSE

\* One read of the provider and the update() made of it.  addrs is the set of
\* interfaces psutil.net_if_addrs() gives an IP address for: update_local
\* binds it to net_addrs and does not read it again, and it reads neither
\* self.hide_no_up nor self.hide_no_ip.
ReadTick(snap, elapsed, addrs) ==
    LET r == update(net_stats, stats_previous, FALSE, NetIoCounters(snap),
                    NetIfStats(snap), elapsed)
    IN /\ reported' = Listed(snap)
       /\ net_addrs' = addrs
       /\ net_stats' = r.stats
       /\ stats_previous' = r.previous
       /\ net_err' = r.err
       /\ net_views' = update_views(limits, r.stats)
       /\ alerted' = Alerted(r.stats)
       /\ UNCHANGED <<limits, hide_no_up, hide_no_ip, nvme_vars, lab_vars, dk_vars>>

\* A tick in which the provider answers (every listed interface has an address).
TickRead ==
    \E snap \in ValidSnapshots, elapsed \in ElapsedValues :
        ReadTick(snap, elapsed, Listed(snap))

\* A tick in which the provider raises OSError.
TickOSError ==
    \E elapsed \in ElapsedValues :
         LET r == update(net_stats, stats_previous, TRUE, <<>>, <<>>, elapsed)
         IN /\ reported' = {}
            /\ net_stats' = r.stats
            /\ stats_previous' = r.previous
            /\ net_err' = r.err
            /\ net_views' = update_views(limits, r.stats)
            /\ alerted' = Alerted(r.stats)
            /\ UNCHANGED <<limits, hide_no_up, hide_no_ip, net_addrs, nvme_vars,
                           lab_vars, dk_vars>>

NetNext == TickRead \/ TickOSError

(***************************************************************************)
(* The network plugin constructed with the hide toggles of the             *)
(* configuration, on a host whose interfaces are idle: each is absent,     *)
(* down or up, with or without an IP address.                              *)
(***************************************************************************)
IdleSnapshots ==
    { snap \in ValidSnapshots :
        \A n \in Ifaces : snap[n].bytes_recv = 0 /\ snap[n].bytes_sent = 0 }

HideInit ==
    /\ limits = Config
    /\ tool = [kind |-> "none"]
    /\ nvme_stats = <<>>
    /\ nvme_update_err = NoError
    /\ nvme_width = NoWidth
    /\ nvme_ret = <<>>
    /\ nvme_curse_err = NoError
    /\ nvme_last = "init"
    /\ nvme_disabled = FALSE
    /\ lab_name = <<>> /\ lab_alias = <<>> /\ lab_width = NoWidth /\ lab_cell = <<>>
    /\ dk_bounds = <<>> /\ dk_stat = <<>> /\ dk_deco = <<>>
    /\ hide_no_up \in BOOLEAN
    /\ hide_no_ip \in BOOLEAN
    /\ \E snap \in IdleSnapshots :
         LET r == update(<<>>, <<>>, FALSE, NetIoCounters(snap), NetIfStats(snap), 0)
         IN /\ net_stats = r.stats
            /\ stats_previous = r.previous
            /\ net_err = r.err
            /\ reported = Listed(snap)
    /\ net_addrs \in SUBSET Ifaces
    /\ net_views = [name \in {} |-> 0]
    /\ alerted = {}

HideTickRead ==
    \E snap \in IdleSnapshots, addrs \in SUBSET Ifaces :
        ReadTick(snap, MaxElapsed, addrs)

HideNext == HideTickRead \/ TickOSError

(***************************************************************************)
(* The name cell of msg_curse on its own: an interface name, an optional   *)
(* alias and a max_width are drawn, and the cell is formatted as the       *)
(* interface loop formats it.                                              *)
(***************************************************************************)
MaxNameLen == 3
NameChars == {"a", "b", ":"}

RECURSIVE StringsUpTo(_)
StringsUpTo(n) ==
    IF n = 0
    THEN {<<>>}
    ELSE LET shorter == StringsUpTo(n - 1)
         IN shorter \cup { <<c>> \o t : c \in NameChars, t \in { u \in shorter : Len(u) = n - 1 } }

InterfaceNames == StringsUpTo(MaxNameLen) \ {<<>>}
Aliases == {NoAlias, <<"w">>, <<"w", "a", "n", "1">>}

LabInit ==
    /\ lab_name \in InterfaceNames
    /\ lab_alias \in Aliases
    /\ lab_width \in { w \in Widths : Truthy(w) /\ w >= NetValueColumns }
    /\ lab_cell = [done |-> FALSE]
    /\ limits = [k \in {} |-> 0]
    /\ net_stats = <<>>
    /\ stats_previous = <<>>
    /\ net_views = [name \in {} |-> 0]
    /\ alerted = {}
    /\ reported = {}
    /\ net_err = NoError
    /\ hide_no_up = FALSE /\ hide_no_ip = FALSE /\ net_addrs = {}
    /\ tool = [kind |-> "none"]
    /\ nvme_stats = <<>>
    /\ nvme_update_err = NoError
    /\ nvme_width = NoWidth
    /\ nvme_ret = <<>>
    /\ nvme_curse_err = NoError
    /\ nvme_last = "init"
    /\ nvme_disabled = FALSE
    /\ dk_bounds = <<>> /\ dk_stat = <<>> /\ dk_deco = <<>>

FormatName ==
    /\ ~lab_cell.done
    /\ LET i == [interface_name |-> lab_name, alias |-> lab_alias]
           r == NameLabel(DisplayName(i), lab_width - NetValueColumns)
       IN lab_cell' = [done |-> TRUE, err |-> r.err, text |-> r.text]
    /\ UNCHANGED <<lab_name, lab_alias, lab_width, nvme_vars, net_vars, dk_vars>>

LabNext == FormatName

(***************************************************************************)
(* The disk I/O decoration the tests of test_diskio.py exercise: the read  *)
(* and the write rate of a disk are classified against the ThresholdSet.   *)
(***************************************************************************)
MaxRate == 5

ThresholdSets ==
    { t \in [careful : 1..MaxRate, warning : 1..MaxRate, critical : 1..MaxRate] :
        t.careful < t.warning /\ t.warning < t.critical }

diskio_decoration(stat, t) ==
    [ read_bytes |-> classify(stat.read_bytes_rate_per_sec, t),
      write_bytes |-> classify(stat.write_bytes_rate_per_sec, t) ]

DkInit ==
    /\ dk_bounds \in ThresholdSets
    /\ dk_stat \in [read_bytes_rate_per_sec : 0..(MaxRate + 1),
                    write_bytes_rate_per_sec : 0..(MaxRate + 1)]
    /\ dk_deco = [done |-> FALSE]
    /\ lab_name = <<>> /\ lab_alias = <<>> /\ lab_width = NoWidth /\ lab_cell = <<>>
    /\ limits = [k \in {} |-> 0]
    /\ net_stats = <<>>
    /\ stats_previous = <<>>
    /\ net_views = [name \in {} |-> 0]
    /\ alerted = {}
    /\ reported = {}
    /\ net_err = NoError
    /\ hide_no_up = FALSE /\ hide_no_ip = FALSE /\ net_addrs = {}
    /\ tool = [kind |-> "none"]
    /\ nvme_stats = <<>>
    /\ nvme_update_err = NoError
    /\ nvme_width = NoWidth
    /\ nvme_ret = <<>>
    /\ nvme_curse_err = NoError
    /\ nvme_last = "init"
    /\ nvme_disabled = FALSE

Decorate ==
    /\ ~dk_deco.done
    /\ LET d == diskio_decoration(dk_stat, dk_bounds)
       IN dk_deco' = [done |-> TRUE, read_bytes |-> d.read_bytes, write_bytes |-> d.write_bytes]
    /\ UNCHANGED <<dk_bounds, dk_stat, nvme_vars, net_vars, lab_vars>>

DkNext == Decorate

(***************************************************************************)
(* The specifications.  Each plugin is a self-contained unit: a            *)
(* specification runs one of them and leaves the other untouched.          *)
(***************************************************************************)
vars == <<nvme_vars, net_vars, lab_vars, dk_vars>>

SpecNvme == NvmeInit /\ [][NvmeNext]_vars

SpecNet == NetInit /\ [][NetNext]_vars

SpecNetHide == HideInit /\ [][HideNext]_vars

SpecLabel == LabInit /\ [][LabNext]_vars

SpecDiskio == DkInit /\ [][DkNext]_vars

\* The loop always takes its next step when it has one.
SpecNvmeTick == NvmeInit /\ [][NvmeTickNext]_vars /\ WF_vars(NvmeTickNext)

(***************************************************************************)
(* Properties.                                                             *)
(***************************************************************************)
\* The views were rebuilt by update_views for the current stats, as they are
\* whenever the display loop calls msg_curse.
ViewsCurrent == DOMAIN net_views = Names(net_stats)

\* The failures of the external tool in a tick.
UnparsableTemperature(lines) ==
    \E k \in 1..Len(lines) :
        /\ HasTemperature(lines[k])
        /\ \/ Len(lines[k]) < 2
           \/ int(lines[k][Len(lines[k]) - 1]).err # NoError
NoTemperatureLine(lines) ==
    /\ \A k \in 1..Len(lines) : ~HasTemperature(lines[k])
    /\ \E k \in 1..Len(lines) : HasPowerCycles(lines[k]) \/ HasPercentageUsed(lines[k])
ToolFailed(outcome) ==
    \/ outcome.kind \in {"not_installed", "exit"}
    \/ /\ outcome.kind = "output"
       /\ UnparsableTemperature(outcome.lines) \/ NoTemperatureLine(outcome.lines)

\* C1: whenever the external tool fails in a tick (not installed, non-zero
\* exit code, a 'Temperature:' line without a parsable number, labelled lines
\* but no 'Temperature:' line), get() and update() raise nothing and the
\* tick ends with empty stats.
C1_ToolFailureGivesNoData ==
    (tool.kind # "none" /\ ToolFailed(tool))
        => /\ get(tool).err = NoError
           /\ nvme_update_err = NoError
           /\ nvme_stats = <<>>

\* C8: after a tick in which the tool exited with a non-zero code, get()
\* returned an empty mapping without raising, update() raised nothing and
\* left stats empty, and msg_curse returns no cell at all, for every width,
\* without raising.
C8_NonZeroExitGivesEmptyDisplay ==
    tool.kind = "exit"
        => /\ get(tool) = [err |-> NoError, data |-> EmptyDict]
           /\ nvme_update_err = NoError
           /\ nvme_stats = <<>>
           /\ \A w \in Widths :
                nvme_msg_curse(nvme_stats, nvme_disabled, w) = [err |-> NoError, ret |-> <<>>]
           /\ nvme_last = "msg_curse" => (nvme_ret = <<>> /\ nvme_curse_err = NoError)

\* C8 witness: an enabled plugin rendered after a tick with a non-zero exit.
C8_Witness ==
    /\ tool.kind = "exit"
    /\ nvme_last = "msg_curse"
    /\ ~nvme_disabled
    /\ nvme_ret = <<>>

\* The exceptions msg_curse raises because of its width argument.
WidthErrors == {"ValueError", "UnboundLocalError"}

\* C3: with non-empty stats, neither msg_curse fails because of the width
\* budget, whatever max_width is.
C3_NoWidthFailure ==
    /\ (net_stats # <<>> /\ ViewsCurrent)
          => \A w \in Widths, a \in Args :
                msg_curse(net_stats, net_views, FALSE, a, w).err \notin WidthErrors
    /\ nvme_stats # <<>>
          => \A w \in Widths :
                nvme_msg_curse(nvme_stats, FALSE, w).err \notin WidthErrors

\* C3, the NVMe half alone (the network plugin is idle under SpecNvme).
C3_NvmeNoWidthFailure ==
    nvme_stats # <<>>
        => \A w \in Widths : nvme_msg_curse(nvme_stats, FALSE, w).err \notin WidthErrors

\* C2: after every update(), nothing was raised and stats holds entries only
\* for interfaces the provider listed in that same tick.
C2_OnlyReportedInterfaces ==
    /\ net_err = NoError
    /\ Names(net_stats) \subseteq reported

\* C4: for a label width W = max_width - 12 >= 1 the name cell has exactly W
\* characters: a name of at most W characters padded on the right, a longer
\* one cut to '_' and its last W - 1 characters.
C4_LabelHasExactWidth ==
    LET W == lab_width - NetValueColumns
        name == IF lab_alias = NoAlias THEN SplitColon(lab_name) ELSE lab_alias
    IN (lab_cell.done /\ W >= 1)
         => /\ lab_cell.err = NoError
            /\ Len(lab_cell.text) = W
            /\ Len(name) <= W => lab_cell.text = name \o Spaces(W - Len(name))
            /\ Len(name) > W
                 => lab_cell.text = <<"_">> \o SubSeq(name, Len(name) - W + 2, Len(name))

\* C9: an interface with no value to show contributes no cell, and every
\* interface that contributes cells contributes a complete row.
CompleteRow(cells, args) ==
    /\ Len(cells) = (IF args.network_sum THEN 4 ELSE 5)
    /\ cells[1].kind = "new_line"
    /\ cells[2].kind = "name"
    /\ cells[3].kind = "mac"
    /\ \A k \in 4..Len(cells) : cells[k].kind \in {"rx", "tx", "ax"}

NoValueToShow(i, args) ==
    /\ "bytes_recv_rate_per_sec" \notin DOMAIN i
    /\ ~args.network_cumul \/ "bytes_recv" \notin DOMAIN i

C9_NoPartialRow ==
    ViewsCurrent
      => \A k \in 1..Len(net_stats), a \in Args, w \in (NetValueColumns + 1)..MaxWidth :
            LET r == RowCells(net_stats[k], net_views, a, w - NetValueColumns)
            IN /\ NoValueToShow(net_stats[k], a) => r.cells = <<>>
               /\ (r.err = NoError /\ r.cells # <<>>) => CompleteRow(r.cells, a)

\* C5: the decoration of a bitrate with configured limits of its own is the
\* direct comparison against them (DEFAULT below the careful bound); the
\* link speed is the maximum only for a bitrate without such limits on an
\* interface with a known speed; with neither the decoration is DEFAULT.
ExpectedDecoration(i, field, suffix) ==
    LET bps == IntTimes(i[RateKey(field)], 8)
        header == SplitColon(i.interface_name) \o <<"_">> \o suffix
    IN IF header \in DOMAIN limits
       THEN classify(bps, limits[header])
       ELSE IF i.speed # 0 /\ suffix \in DOMAIN limits
       THEN classify((bps * 100) \div i.speed, limits[suffix])
       ELSE "DEFAULT"

C5_ExplicitLimitsDecideAlone ==
    ViewsCurrent
      => \A k \in 1..Len(net_stats) :
            LET i == net_stats[k]
            IN HasRates(i)
                 => /\ net_views[i.interface_name].bytes_recv.decoration
                         = ExpectedDecoration(i, "bytes_recv", <<"r", "x">>)
                    /\ net_views[i.interface_name].bytes_sent.decoration
                         = ExpectedDecoration(i, "bytes_sent", <<"t", "x">>)

\* C6: the decoration of a rate is the highest level whose bound is at most
\* the rate (bounds inclusive), none of CAREFUL, WARNING, CRITICAL below the
\* careful bound; the read and the write rate are classified each from its
\* own value.
BoundOf(level, t) ==
    CASE level = "CAREFUL" -> t.careful
      [] level = "WARNING" -> t.warning
      [] level = "CRITICAL" -> t.critical

HighestLevel(value, t) ==
    LET reached == { l \in {"CAREFUL", "WARNING", "CRITICAL"} : BoundOf(l, t) <= value }
    IN IF reached = {}
       THEN "DEFAULT"
       ELSE CHOOSE l \in reached : \A m \in reached : BoundOf(m, t) <= BoundOf(l, t)

RateKeys == { RateKey(f) : f \in RateFields }

ShowsRate(i, self_views) ==
    \E a \in Args, w \in (NetValueColumns + 1)..MaxWidth :
        LET r == RowCells(i, self_views, a, w - NetValueColumns)
        IN \E k \in 1..Len(r.cells) :
              /\ r.cells[k].kind \in {"rx", "tx", "ax"}
              /\ r.cells[k].msg.source = "rate"

Undecorated(view) ==
    view.bytes_recv.decoration = "DEFAULT" /\ view.bytes_sent.decoration = "DEFAULT"

FirstSampleStep ==
    \A n \in Names(net_stats') \ Names(stats_previous) :
        /\ n \notin alerted'
        /\ Undecorated(net_views'[n])
        /\ ~ShowsRate(Entry(net_stats', n), net_views')
        /\ DOMAIN Entry(net_stats', n) \cap RateKeys = {}

AfterConstructor ==
    /\ alerted = {}
    /\ \A k \in 1..Len(net_stats) : DOMAIN net_stats[k] \cap RateKeys = {}

C7_NoRateBeforeSecondSample == AfterConstructor /\ [][FirstSampleStep]_vars

\* C7 witness: the loopback has just appeared (no rate) in a tick in which
\* eth0, sampled before, got its alert.
C7_Witness ==
    /\ ViewsCurrent
    /\ Eth \in alerted
    /\ Lo \in Names(net_stats)
    /\ DOMAIN Entry(net_stats, Lo) \cap RateKeys = {}

\* C10: when a counter decreased since the previous sample, update() raises
\* nothing, the interface gets no rate of that counter in this tick, and the
\* current sample is the baseline: a rate that appears in the next tick is
\* (next - current) / elapsed and is not negative.
RollbackStep ==
    /\ net_err' = NoError
    /\ \A n \in Names(net_stats') \cap Names(stats_previous), f \in RateFields :
          LET new == Entry(net_stats', n)
              old == Entry(stats_previous, n)
          IN /\ new[f] < old[f]
                  => /\ RateKey(f) \notin DOMAIN new
                     /\ Entry(stats_previous', n)[f] = new[f]
             /\ (RateKey(f) \notin DOMAIN Entry(net_stats, n) /\ RateKey(f) \in DOMAIN new)
                  => /\ new[RateKey(f)].num = new[f] - Entry(net_stats, n)[f]
                     /\ new[RateKey(f)].num >= 0
                     /\ new[RateKey(f)].den >= 1

C10_RollbackResetsBaseline == [][RollbackStep]_vars

\* C10 witness: eth0 after a tick in which its received counter fell back
\* while its sent counter went on: a sent rate, no received rate, and the
\* current sample kept as the baseline.
C10_Witness ==
    /\ Eth \in Names(net_stats)
    /\ "bytes_sent_rate_per_sec" \in DOMAIN Entry(net_stats, Eth)
    /\ "bytes_recv_rate_per_sec" \notin DOMAIN Entry(net_stats, Eth)
    /\ Entry(stats_previous, Eth).bytes_recv = Entry(net_stats, Eth).bytes_recv

\* C11: every NVMe update() eventually completes, even when the external
\* tool never exits: a call of the tool that was started is always followed
\* by the end of update().
C11_UpdateCompletes == InCheckOutput ~> ~InCheckOutput

\* An entry of stats whose interface is down, or has no IP address.
IsDown(i) == ~i.is_up
HasNoIp(i) == i.interface_name \notin net_addrs

\* C12: the hide toggles take effect on every tick: with hide_no_up, stats
\* holds no interface that is down; with hide_no_ip, stats holds no
\* interface without an IP address; with both toggles off every interface
\* the read listed is kept.
C12_HideTogglesTakeEffect ==
    /\ \A k \in 1..Len(net_stats) :
          /\ hide_no_up => ~IsDown(net_stats[k])
          /\ hide_no_ip => ~HasNoIp(net_stats[k])
    /\ (~hide_no_up /\ ~hide_no_ip /\ reported # {}) =>
          reported \subseteq Names(net_stats)

\* C12, hide_no_up alone
C12_HideNoUp == \A k \in 1..Len(net_stats) : hide_no_up => ~IsDown(net_stats[k])

\* C12, hide_no_ip alone
C12_HideNoIp == \A k \in 1..Len(net_stats) : hide_no_ip => ~HasNoIp(net_stats[k])

\* C12, the toggles off: what the read listed is kept
C12_KeptWhenDisabled ==
    (~hide_no_up /\ ~hide_no_ip /\ reported # {}) => reported \subseteq Names(net_stats)

\* A link's nominal capacity in bits per second, with the base 1000.
NominalBps(name) == LinkSpeedMbps(name) * (1000 * 1000)

\* C13: update_local stores each interface's speed as its link speed in
\* Mbps times 1,000,000, so that a bitrate equal to the link's nominal
\* capacity is exactly 100% of the maximum update_views compares it with.
C13_SpeedIsBase1000 ==
    \A k \in 1..Len(net_stats) :
        LET i == net_stats[k]
        IN /\ i.speed = NominalBps(i.interface_name)
           /\ i.speed # 0 => (NominalBps(i.interface_name) * 100) \div i.speed = 100

====
